---- MODULE Spec2Model ----
(***************************************************************************)
(* Model of the user-documentation index generator                         *)
(* (doc/htmldoc/_ext/extractor_userdocs.py): KeywordIndex, make_hierarchy,  *)
(* rst_index, rewrite_see_also and RstWriter.CreateTagIndices;              *)
(* and of the include expansion of SLI files (extras/inline.py): replaced. *)
(*                                                                         *)
(* Python strings are TLA+ strings; a Python list or tuple is a sequence;  *)
(* a Python set is a set; a Python dict is the sequence of its items       *)
(* [k |-> key, v |-> value] in insertion order.                            *)
(***************************************************************************)
EXTENDS Integers, Sequences, FiniteSets, TLC

VARIABLES
    nfiles_total,   \* extract_all: number of input files processed so far
    documents,      \* KeywordIndex._documents
    pc,             \* position of the program
    tags,           \* CreateTagIndices: the tagdict it works on
    taglist,        \* CreateTagIndices: tags to combine
    depth,          \* CreateTagIndices: levels of indices
    nindices,       \* CreateTagIndices: reported number of combinations
    todo,           \* CreateTagIndices: combinations the loop still has to visit
    visited,        \* CreateTagIndices: current_tags of every iteration so far
    current_tags,   \* CreateTagIndices: the combination of the last iteration
    hier,           \* CreateTagIndices: make_hierarchy's result in the last iteration
    indexfiles,     \* CreateTagIndices: names of generated files
    written,        \* every write of an index file: [name, tags, text]
    ret,            \* the last call of rewrite_see_also by extract(), or a direct
                    \* call of make_hierarchy, and what it returned
    library,        \* inline.py: the paths for which is_file() holds
    inl_pc,         \* inline.py: position of main()
    stack,          \* inline.py: the suspended generators replaced(), outermost first
    noinclude,      \* inline.py: the list shared by all calls of replaced()
    inserts,        \* inline.py: per path, the lines "INSERT path LITERALLY" printed
    yielded         \* inline.py: the kind of the line yielded last

index_vars == <<nfiles_total, documents, pc, tags, taglist, depth, nindices, todo,
                visited, current_tags, hier, indexfiles, written, ret>>

inline_vars == <<library, inl_pc, stack, noinclude, inserts, yielded>>

vars == <<index_vars, inline_vars>>

-----------------------------------------------------------------------------
(* Bounds of the model *)

\* number of input files given to extract_all
MaxFiles == 2

\* number of tags of the single document of SpecManyTags
MaxManyTags == 5

\* number of lines of a file read by replaced()
MaxLines == 2

-----------------------------------------------------------------------------
(* Python strings *)

\* the characters used, in code point order
Alphabet == " &(),-.0123456789:<>ABCDEFGHIJKLMNOPQRSTUVWXYZ_abcdefghijklmnopqrstuvwxyz"

LowerCase == "abcdefghijklmnopqrstuvwxyz"

UpperCase == "ABCDEFGHIJKLMNOPQRSTUVWXYZ"

Ch(s, i) == SubSeq(s, i, i)

Chars == {Ch(Alphabet, i) : i \in 1..Len(Alphabet)}

IndexIn(s, c) == CHOOSE i \in 1..Len(s) : Ch(s, i) = c

ord == [c \in Chars |-> IndexIn(Alphabet, c)]

IsLower(c) == \E i \in 1..Len(LowerCase) : Ch(LowerCase, i) = c

IsUpper(c) == \E i \in 1..Len(UpperCase) : Ch(UpperCase, i) = c

ToUpper(c) == IF IsLower(c) THEN Ch(UpperCase, IndexIn(LowerCase, c)) ELSE c

ToLower(c) == IF IsUpper(c) THEN Ch(LowerCase, IndexIn(UpperCase, c)) ELSE c

\* s < t for Python strings: lexicographic by code point
StrLess(s, t) ==
    \E i \in 1..Len(t) :
        /\ i - 1 <= Len(s)
        /\ SubSeq(s, 1, i - 1) = SubSeq(t, 1, i - 1)
        /\ \/ Len(s) = i - 1
           \/ ord[Ch(s, i)] < ord[Ch(t, i)]

\* str.upper()
RECURSIVE upper(_)
upper(s) == IF s = "" THEN "" ELSE ToUpper(Ch(s, 1)) \o upper(Tail(s))

\* str.title(): a cased character is upper-cased after an uncased one and
\* lower-cased after a cased one
RECURSIVE TitleFrom(_, _)
TitleFrom(s, prevCased) ==
    IF s = "" THEN ""
    ELSE LET c == Ch(s, 1)
             cased == IsLower(c) \/ IsUpper(c)
         IN (IF prevCased THEN ToLower(c) ELSE ToUpper(c)) \o TitleFrom(Tail(s), cased)

title(s) == TitleFrom(s, FALSE)

\* needle in haystack, for two strings
Contains(haystack, needle) ==
    \E i \in 1..(Len(haystack) - Len(needle) + 1) :
        SubSeq(haystack, i, i + Len(needle) - 1) = needle

\* sep.join(seq)
RECURSIVE join(_, _)
join(sep, seq) ==
    IF seq = <<>> THEN ""
    ELSE IF Len(seq) = 1 THEN seq[1]
    ELSE seq[1] \o sep \o join(sep, Tail(seq))

\* str(n) for a natural number
RECURSIVE str(_)
str(n) == IF n < 10 THEN Ch("0123456789", n + 1)
          ELSE str(n \div 10) \o Ch("0123456789", (n % 10) + 1)

\* s * n
RECURSIVE repeat(_, _)
repeat(s, n) == IF n <= 0 THEN "" ELSE s \o repeat(s, n - 1)

\* os.path.splitext(t)[0]: cut at the last dot that is not a leading dot
splitext0(t) ==
    LET dots == {i \in 1..Len(t) : Ch(t, i) = "." /\ \E j \in 1..(i - 1) : Ch(t, j) # "."}
    IN IF dots = {} THEN t
       ELSE SubSeq(t, 1, (CHOOSE i \in dots : \A j \in dots : j <= i) - 1)

-----------------------------------------------------------------------------
(* Python lists, sets and dicts *)

Range(seq) == {seq[i] : i \in 1..Len(seq)}

\* list.remove(x): removes the first occurrence
remove(seq, x) ==
    LET i == CHOOSE j \in 1..Len(seq) : seq[j] = x /\ \A k \in 1..(j - 1) : seq[k] # x
    IN SubSeq(seq, 1, i - 1) \o SubSeq(seq, i + 1, Len(seq))

\* sorted(seq) for a sequence of strings (stable insertion sort)
RECURSIVE insort(_, _)
insort(sortedseq, x) ==
    IF sortedseq = <<>> THEN <<x>>
    ELSE IF StrLess(x, Head(sortedseq)) THEN <<x>> \o sortedseq
    ELSE <<Head(sortedseq)>> \o insort(Tail(sortedseq), x)

RECURSIVE sorted(_)
sorted(seq) ==
    IF seq = <<>> THEN <<>>
    ELSE insort(sorted(SubSeq(seq, 1, Len(seq) - 1)), seq[Len(seq)])

\* sorted(s) for a set of strings
RECURSIVE sortedset(_)
sortedset(S) ==
    IF S = {} THEN <<>>
    ELSE LET m == CHOOSE x \in S : \A y \in S : y = x \/ StrLess(x, y)
         IN <<m>> \o sortedset(S \ {m})

\* dict.keys(), in insertion order
keys(d) == [i \in 1..Len(d) |-> d[i].k]

\* dict.values(), in insertion order
values(d) == [i \in 1..Len(d) |-> d[i].v]

\* d[key]
get(d, key) == d[CHOOSE i \in 1..Len(d) : d[i].k = key].v

\* d[key] = value
setitem(d, key, value) ==
    IF key \in Range(keys(d))
    THEN [i \in 1..Len(d) |-> IF d[i].k = key THEN [k |-> key, v |-> value] ELSE d[i]]
    ELSE Append(d, [k |-> key, v |-> value])

\* sorted(d.items()): the keys of a dict are distinct, so the keys decide
items_sorted(d) == LET ks == sorted(keys(d)) IN [i \in 1..Len(d) |-> [k |-> ks[i], v |-> get(d, ks[i])]]

\* set(list)
set(seq) == Range(seq)

\* set.union(*seq_of_sets)
RECURSIVE set_union(_)
set_union(seq) == IF seq = <<>> THEN {} ELSE Head(seq) \cup set_union(Tail(seq))

\* set.intersection(*seq_of_sets), for a non-empty seq
RECURSIVE set_intersection(_)
set_intersection(seq) ==
    IF Len(seq) = 1 THEN seq[1] ELSE Head(seq) \cap set_intersection(Tail(seq))

\* math.comb(n, k)
RECURSIVE comb(_, _)
comb(n, k) ==
    IF k < 0 \/ k > n THEN 0
    ELSE IF k = 0 \/ k = n THEN 1
    ELSE comb(n - 1, k - 1) + comb(n - 1, k)

\* itertools.combinations(seq, L): the L-length subsequences of seq, in
\* lexicographic order of the positions taken
RECURSIVE combinations(_, _)
combinations(seq, L) ==
    IF L = 0 THEN << <<>> >>
    ELSE IF Len(seq) < L THEN <<>>
    ELSE LET withhead == combinations(Tail(seq), L - 1)
         IN [i \in 1..Len(withhead) |-> <<Head(seq)>> \o withhead[i]]
            \o combinations(Tail(seq), L)

\* sum(seq)
RECURSIVE sum(_)
sum(seq) == IF seq = <<>> THEN 0 ELSE Head(seq) + sum(Tail(seq))

\* itertools.chain(*seqs)
RECURSIVE chain(_)
chain(seqs) == IF seqs = <<>> THEN <<>> ELSE Head(seqs) \o chain(Tail(seqs))

\* range(n) as a sequence
range(n) == [i \in 1..(IF n > 0 THEN n ELSE 0) |-> i - 1]

-----------------------------------------------------------------------------
(* KeywordIndex *)

\* tagdict.setdefault(tag, list()).append(name)
setdefault_append(d, tag, name) ==
    IF tag \in Range(keys(d))
    THEN setitem(d, tag, Append(get(d, tag), name))
    ELSE Append(d, [k |-> tag, v |-> <<name>>])

\* the inner loop of tagdict: for tag in userdoc.tags
RECURSIVE tagdict_userdoc(_, _, _)
tagdict_userdoc(d, doctags, name) ==
    IF doctags = <<>> THEN d
    ELSE tagdict_userdoc(setdefault_append(d, Head(doctags), name), Tail(doctags), name)

\* KeywordIndex.tagdict: the reverse index of tags to document names
RECURSIVE tagdict(_)
tagdict(docs) ==
    IF docs = <<>> THEN <<>>
    ELSE tagdict_userdoc(tagdict(SubSeq(docs, 1, Len(docs) - 1)),
                         docs[Len(docs)].tags, docs[Len(docs)].filename)

-----------------------------------------------------------------------------
(* rewrite_see_also *)

\* rightcase: title-case unless the text is all upper-case (an acronym)
rightcase(text) == IF text # upper(text) THEN title(text) ELSE text

\* the links that replace the content of the section, one per tag
see_also_links(doctags) ==
    [i \in 1..Len(doctags) |->
        [text |-> rightcase(doctags[i]), link |-> "index_" \o doctags[i]]]

\* A document is the sequence of its sections [title, content]; the content
\* of a section is the sequence of the links in it.
\* rewrite_see_also(doc, filename, tags): [raised, doc]
rewrite_see_also(doc, doctags) ==
    IF doc = <<>> THEN [raised |-> "ValueError", doc |-> doc]
    ELSE IF \A i \in 1..Len(doc) : doc[i].title # "See also"
    THEN [raised |-> "ValueError", doc |-> doc]
    ELSE LET first == CHOOSE i \in 1..Len(doc) :
                        /\ doc[i].title = "See also"
                        /\ \A j \in 1..(i - 1) : doc[j].title # "See also"
         IN [raised |-> "",
             doc |-> [i \in 1..Len(doc) |->
                        IF i = first
                        THEN [title |-> doc[i].title, content |-> see_also_links(doctags)]
                        ELSE doc[i]]]

-----------------------------------------------------------------------------
(* make_hierarchy *)

\* [set(items) for tag, items in tags.items() if tag in basetags]
basetag_sets(tagmap, basetags) ==
    LET sel == SelectSeq(tagmap, LAMBDA it : it.k \in Range(basetags))
    IN [i \in 1..Len(sel) |-> set(sel[i].v)]

\* the loop over subtags: a subtag gets an entry when it has documents
\* among the baseitems
RECURSIVE subtag_tree(_, _, _, _)
subtag_tree(tree, tagmap, subtags, baseitems) ==
    IF subtags = <<>> THEN tree
    ELSE LET subtag == Head(subtags)
             docs == set(get(tagmap, subtag)) \cap baseitems
         IN subtag_tree(IF docs # {} THEN setitem(tree, subtag, docs) ELSE tree,
                        tagmap, Tail(subtags), baseitems)

\* remaining: None (here the empty set, as falsy as None) unless the tree
\* has entries
remaining_items(tree, baseitems) ==
    IF tree # <<>> THEN baseitems \ set_union(values(tree)) ELSE {}

\* make_hierarchy(tags, *basetags). The result is
\*   [raised, flat, basetags, dict]: without basetags the tags themselves
\*   (flat, a dict of lists), else {basetags: dict} with dict a dict of sets.
make_hierarchy(tagmap, basetags) ==
    IF basetags = <<>>
    THEN [raised |-> "", flat |-> TRUE, basetags |-> <<>>, dict |-> tagmap]
    ELSE IF basetag_sets(tagmap, basetags) = <<>>
    THEN [raised |-> "TypeError", flat |-> FALSE, basetags |-> basetags, dict |-> <<>>]
    ELSE LET baseitems == set_intersection(basetag_sets(tagmap, basetags))
             subtags == SelectSeq(keys(tagmap), LAMBDA t : t \notin Range(basetags))
             tree == subtag_tree(<<>>, tagmap, subtags, baseitems)
             remaining == remaining_items(tree, baseitems)
         IN [raised |-> "", flat |-> FALSE, basetags |-> basetags,
             dict |-> IF remaining # {} THEN setitem(tree, "", remaining) ELSE tree]

-----------------------------------------------------------------------------
(* rst_index *)

\* The text of a page is the sequence of the pieces appended to `output`,
\* each [kind, text, link, underline].

\* mktitle(t, ul, link): the section title, a link to `link`
mktitle(t, ul, link) ==
    LET text == IF t # upper(t) THEN title(t) ELSE t
        filename == IF link # "" THEN link ELSE "index_" \o t
    IN [kind |-> "title", text |-> text, link |-> filename,
        underline |-> repeat(ul, Len(text) + Len(filename) + 10)]

\* mkitem(t): the list item linking to a document
mkitem(t) == [kind |-> "item", text |-> "", link |-> splitext0(t), underline |-> ""]

\* subindex as it would be without sorted()
subindex_unsorted(subtag, basetags) == "index_" \o join("_", <<subtag>> \o basetags)

\* "index_" + "_".join(sorted(chain([tags], current_tags)))
subindex(subtag, basetags) == "index_" \o join("_", sorted(<<subtag>> \o basetags))

\* for item in sorted(items): output.append(mkitem(item)), then an empty line
item_lines(sorteditems) ==
    [i \in 1..Len(sorteditems) |-> mkitem(sorteditems[i])]
    \o << [kind |-> "blank", text |-> "", link |-> "", underline |-> ""] >>

\* One iteration of the loop of rst_index over a dict whose keys are
\* strings and whose values are lists (islist) or sets of documents:
\* the title, unless the key is empty or the only one, and the items.
rst_index_entry_body(entry, nkeys, basetags, underlines, islist) ==
    (IF entry.k # "" /\ nkeys # 1
     THEN << mktitle(IF islist THEN entry.k \o " (" \o str(Len(entry.v)) \o ")"
                               ELSE entry.k,
                     Ch(underlines, 1), subindex(entry.k, basetags)) >>
     ELSE <<>>)
    \o item_lines(IF islist THEN sorted(entry.v) ELSE sortedset(entry.v))

\* the loop of rst_index as it would be without the NOINDEX test
skip_nothing(tags_) == FALSE

\* if "NOINDEX" in tags: continue
skip_noindex(tags_) == Contains(tags_, "NOINDEX")

rst_index_entry(entry, nkeys, basetags, underlines, islist) ==
    IF skip_noindex(entry.k) THEN <<>>
    ELSE rst_index_entry_body(entry, nkeys, basetags, underlines, islist)

\* the loop of rst_index over sorted(hierarchy.items())
RECURSIVE rst_index_loop(_, _, _, _, _)
rst_index_loop(entries, nkeys, basetags, underlines, islist) ==
    IF entries = <<>> THEN <<>>
    ELSE rst_index_entry(Head(entries), nkeys, basetags, underlines, islist)
         \o rst_index_loop(Tail(entries), nkeys, basetags, underlines, islist)

\* rst_index(hierarchy, current_tags), called with top=True
rst_index(hierarchy, basetags) ==
    LET nkeys == IF hierarchy.flat THEN Len(hierarchy.dict) ELSE 1
        page_title == "Model directory"
                      \o (IF nkeys = 1 THEN ": " \o join(", ", basetags) ELSE "")
        preamble == << [kind |-> "page_title", text |-> page_title, link |-> "",
                        underline |-> repeat("=", Len(page_title))],
                       [kind |-> "description", text |-> "", link |-> "",
                        underline |-> ""] >>
    IN preamble \o
       (IF hierarchy.flat
        THEN rst_index_loop(items_sorted(hierarchy.dict), nkeys, basetags,
                            IF nkeys # 1 THEN "-~" ELSE "=-~", TRUE)
        ELSE \* the only key is the tuple basetags: no title, and its items
             \* are a dict, rendered by rst_index(items, current_tags,
             \* underlines[1:], top=False)
             IF "NOINDEX" \in Range(hierarchy.basetags) THEN <<>>
             ELSE rst_index_loop(items_sorted(hierarchy.dict), Len(hierarchy.dict),
                                 basetags, "-~", FALSE))

\* `items` as it would be left by items.sort()
items_sorted_in_place(items) == sorted(items)

\* `items` after "for item in sorted(items)": sorted() builds a new list
\* and leaves the list it is given as it is
items_after_loop(items) == items

\* The lists of the TagMap after rst_index(hierarchy). make_hierarchy is
\* given tags.copy(), a new dict holding the same lists, and without
\* basetags returns it: the root page is rendered from the very lists of
\* the TagMap, every other page from sets built by make_hierarchy.
tags_after_rst_index(tagmap, hierarchy) ==
    IF hierarchy.flat
    THEN [i \in 1..Len(tagmap) |->
            IF skip_noindex(tagmap[i].k) THEN tagmap[i]
            ELSE [k |-> tagmap[i].k, v |-> items_after_loop(tagmap[i].v)]]
    ELSE tagmap

-----------------------------------------------------------------------------
(* RstWriter.CreateTagIndices *)

\* if x in taglist: taglist.remove(x)
remove_if_in(seq, x) == IF x \in Range(seq) THEN remove(seq, x) ELSE seq

\* taglist = list(tags.keys()) without "NOINDEX" and ""
index_taglist(tagmap) == remove_if_in(remove_if_in(keys(tagmap), "NOINDEX"), "")

\* depth as it would be without the cap
index_depth_uncapped(tl) == Len(tl)

\* depth = min(4, len(taglist))
index_depth(tl) == IF Len(tl) < 4 THEN Len(tl) ELSE 4

\* nindices = sum([comb(len(taglist), L) for L in range(depth - 1)])
index_nindices(tl, d) ==
    sum([i \in 1..Len(range(d - 1)) |-> comb(Len(tl), range(d - 1)[i])])

\* chain(*[combinations(taglist, L) for L in range(depth + 1)])
index_combinations(tl, d) ==
    chain([i \in 1..Len(range(d + 1)) |-> combinations(tl, range(d + 1)[i])])

\* indexname = "index%s.rst" % "".join(["_" + x for x in current_tags])
indexname(combination) ==
    "index" \o join("", [i \in 1..Len(combination) |-> "_" \o combination[i]]) \o ".rst"

\* any(hier.values())
any_values(h) ==
    IF h.flat THEN \E i \in 1..Len(h.dict) : h.dict[i].v # <<>>
    ELSE h.dict # <<>>

-----------------------------------------------------------------------------
(* Inputs *)

\* Tags are free text matching [\w -]+ (or empty): they may hold "_".
TagUniverse == {"a", "b", "a_b", "NOINDEX", ""}

\* tags = [t.strip() for t in match.group("tags").split(",")]: never empty
TagLists ==
    {<<t>> : t \in TagUniverse} \cup {<<s, t>> : s \in TagUniverse, t \in TagUniverse}

\* the documentation found in a file: no sections, no section "See also",
\* a section "See also" with a manual list
UserDocTexts ==
    { <<>>,
      << [title |-> "Description", content |-> <<>>] >>,
      << [title |-> "Description", content |-> <<>>],
         [title |-> "See also", content |-> << [text |-> "manual", link |-> "manual"] >>] >> }

\* the input files of extract_all, in the order given
listoffiles ==
    [i \in 1..MaxFiles |->
        [dir |-> IF i <= 2 THEN "models" ELSE "nestkernel",
         stem |-> IF i % 2 = 1 THEN "d2" ELSE "d1"]]

\* outname = Path(filename).with_suffix(self._replace_ext).name
outname(filename) == filename.stem \o ".rst"

\* the tag lists of the single document of SpecManyTags: no tag twice
ManyTagsUniverse == {"a", "b", "a_b", "c", "d", "NOINDEX"}

ManyTagLists ==
    {tl \in UNION {[1..n -> ManyTagsUniverse] : n \in 1..MaxManyTags} :
        \A i, j \in 1..Len(tl) : i # j => tl[i] # tl[j]}

\* the basetags of a direct call of make_hierarchy: one tag, or two
\* different ones in sorted order
BasetagTuples ==
    {<<t>> : t \in TagUniverse}
        \cup {p \in TagUniverse \X TagUniverse : StrLess(p[1], p[2])}

-----------------------------------------------------------------------------
(* extras/inline.py *)

\* the names found in "(name) run" commands
IncludeNames == {"x", "x.sli", "y.txt"}

\* the position of the last "." of a name, 0 if it has none
rfind_dot(name) ==
    IF \E i \in 1..Len(name) : Ch(name, i) = "."
    THEN CHOOSE i \in 1..Len(name) :
            Ch(name, i) = "." /\ \A j \in (i + 1)..Len(name) : Ch(name, j) # "."
    ELSE 0

\* Path.with_suffix: the suffix of a name starts at its last ".", unless
\* that is its first or its last character
with_suffix(name, suffix) ==
    (IF 1 < rfind_dot(name) /\ rfind_dot(name) < Len(name)
     THEN SubSeq(name, 1, rfind_dot(name) - 1)
     ELSE name) \o suffix

\* incfile = (SLI_LIBPATH / match.group('name')).with_suffix(".sli")
incfile(name) == "lib/sli/" \o with_suffix(name, ".sli")

\* the paths a "(name) run" command can refer to
IncludePaths == {incfile(n) : n \in IncludeNames}

\* the file given to main(), when it is not one of the library
MainFile == "main.sli"

\* a line of a file, as the names of the matches of sliimport in it
Lines == {<<>>} \cup {<<n>> : n \in IncludeNames}
             \cup {<<n, m>> : n \in IncludeNames, m \in IncludeNames}

\* the interpreter's limit on nested calls, scaled down: replaced() as
\* written nests at most one call per path, plus the outermost
RecursionLimit == Cardinality(IncludePaths) + 3

\* a generator replaced(filename, noinclude) that has not read a line yet
new_generator(filename) ==
    [filename |-> filename, no |-> 0, inline |-> FALSE, line |-> <<>>, found |-> FALSE]

\* "if incfile in noinclude" as it would be with a test that never holds
never_in_noinclude(path, list) == FALSE

\* if incfile in noinclude
in_noinclude(path, list) == path \in Range(list)

\* main() has not been called
inline_idle ==
    /\ library = {}
    /\ inl_pc = "idle"
    /\ stack = <<>>
    /\ noinclude = <<>>
    /\ inserts = [f \in IncludePaths |-> 0]
    /\ yielded = "nothing"

-----------------------------------------------------------------------------
(* The program *)

NoHierarchy == [raised |-> "", flat |-> TRUE, basetags |-> <<>>, dict |-> <<>>]

NoCall == [fn |-> "none"]

\* extract_all has not been called
index_idle ==
    /\ nfiles_total = 0
    /\ documents = <<>>
    /\ pc = "extract_all"
    /\ tags = <<>>
    /\ taglist = <<>>
    /\ depth = 0
    /\ nindices = 0
    /\ todo = <<>>
    /\ visited = <<>>
    /\ current_tags = <<>>
    /\ hier = NoHierarchy
    /\ indexfiles = <<>>
    /\ written = <<>>
    /\ ret = NoCall

Init == index_idle /\ inline_idle

\* extract_all, one iteration: extract() finds the documentation `doc` with
\* the tags `doctags`, rewrites its "See also" section, and the UserDoc is
\* added to the index (KeywordIndex.add). The text of a UserDoc is read by
\* no index operation and is kept in `ret` only.
extract_userdoc(doctags, doc) ==
    /\ pc = "extract_all"
    /\ nfiles_total < Len(listoffiles)
    /\ nfiles_total' = nfiles_total + 1
    /\ ret' = [fn |-> "rewrite_see_also", tags |-> doctags,
               result |-> rewrite_see_also(doc, doctags)]
    /\ documents' = Append(documents,
                           [tags |-> doctags,
                            filename |-> outname(listoffiles[nfiles_total + 1])])
    /\ UNCHANGED <<pc, tags, taglist, depth, nindices, todo, visited, current_tags,
                   hier, indexfiles, written>>
    /\ UNCHANGED inline_vars

\* extract_all, one iteration: extract() raises NoUserDocsFound
no_userdocs ==
    /\ pc = "extract_all"
    /\ nfiles_total < Len(listoffiles)
    /\ nfiles_total' = nfiles_total + 1
    /\ UNCHANGED <<documents, pc, tags, taglist, depth, nindices, todo, visited,
                   current_tags, hier, indexfiles, written, ret>>
    /\ UNCHANGED inline_vars

\* extract_all after its loop: set.union(*[...]) raises TypeError when the
\* tagdict is empty; else the index is returned, and the texts of extract()
\* are no longer at hand
extract_all_return ==
    /\ pc = "extract_all"
    /\ nfiles_total = Len(listoffiles)
    /\ pc' = IF tagdict(documents) = <<>> THEN "raised" ELSE "extracted"
    /\ ret' = NoCall
    /\ UNCHANGED <<nfiles_total, documents, tags, taglist, depth, nindices, todo,
                   visited, current_tags, hier, indexfiles, written>>
    /\ UNCHANGED inline_vars

\* CreateTagIndices up to its loop; max() of no tags raises ValueError
CreateTagIndices_begin ==
    /\ pc = "extracted"
    /\ LET tagmap == tagdict(documents)
           tl == index_taglist(tagmap)
       IN IF tagmap = <<>>
          THEN /\ pc' = "raised"
               /\ UNCHANGED <<tags, taglist, depth, nindices, todo>>
          ELSE /\ pc' = "CreateTagIndices"
               /\ tags' = tagmap
               /\ taglist' = tl
               /\ depth' = index_depth(tl)
               /\ nindices' = index_nindices(tl, index_depth(tl))
               /\ todo' = index_combinations(tl, index_depth(tl))
    /\ UNCHANGED <<nfiles_total, documents, visited, current_tags, hier, indexfiles,
                   written, ret>>
    /\ UNCHANGED inline_vars

\* CreateTagIndices, one iteration of its loop
CreateTagIndices_iteration ==
    /\ pc = "CreateTagIndices"
    /\ todo # <<>>
    /\ LET ct == sorted(Head(todo))
           h == make_hierarchy(tags, ct)
       IN /\ current_tags' = ct
          /\ visited' = Append(visited, ct)
          /\ todo' = Tail(todo)
          /\ hier' = h
          /\ IF h.raised # ""
             THEN /\ pc' = "raised"
                  /\ UNCHANGED <<tags, indexfiles, written>>
             ELSE /\ pc' = pc
                  /\ IF ~any_values(h)
                     THEN UNCHANGED <<tags, indexfiles, written>>
                     ELSE /\ written' = Append(written,
                                               [name |-> indexname(ct), tags |-> ct,
                                                text |-> rst_index(h, ct)])
                          /\ tags' = tags_after_rst_index(tags, h)
                          /\ indexfiles' = Append(indexfiles, indexname(ct))
    /\ UNCHANGED <<nfiles_total, documents, taglist, depth, nindices, ret>>
    /\ UNCHANGED inline_vars

\* CreateTagIndices returns indexfiles
CreateTagIndices_return ==
    /\ pc = "CreateTagIndices"
    /\ todo = <<>>
    /\ pc' = "done"
    /\ UNCHANGED <<nfiles_total, documents, tags, taglist, depth, nindices, todo,
                   visited, current_tags, hier, indexfiles, written, ret>>
    /\ UNCHANGED inline_vars

\* a direct call make_hierarchy(index.tagdict, *basetags)
call_make_hierarchy(basetags) ==
    /\ pc = "extract_all"
    /\ pc' = "called"
    /\ ret' = [fn |-> "make_hierarchy", basetags |-> basetags,
               result |-> make_hierarchy(tagdict(documents), basetags)]
    /\ UNCHANGED <<nfiles_total, documents, tags, taglist, depth, nindices, todo,
                   visited, current_tags, hier, indexfiles, written>>
    /\ UNCHANGED inline_vars

Next ==
    \/ \E doctags \in TagLists, doc \in UserDocTexts : extract_userdoc(doctags, doc)
    \/ no_userdocs
    \/ extract_all_return
    \/ CreateTagIndices_begin
    \/ CreateTagIndices_iteration
    \/ CreateTagIndices_return

Spec == Init /\ [][Next]_vars

\* CreateTagIndices on the index of one document with many tags
InitManyTags ==
    /\ nfiles_total = 1
    /\ \E tl \in ManyTagLists : documents = << [tags |-> tl, filename |-> "d1.rst"] >>
    /\ pc = "extracted"
    /\ tags = <<>>
    /\ taglist = <<>>
    /\ depth = 0
    /\ nindices = 0
    /\ todo = <<>>
    /\ visited = <<>>
    /\ current_tags = <<>>
    /\ hier = NoHierarchy
    /\ indexfiles = <<>>
    /\ written = <<>>
    /\ ret = NoCall
    /\ inline_idle

NextManyTags ==
    \/ CreateTagIndices_begin
    \/ CreateTagIndices_iteration
    \/ CreateTagIndices_return

SpecManyTags == InitManyTags /\ [][NextManyTags]_vars

\* direct calls of make_hierarchy on the tagdict of an index
NextHierarchy ==
    \/ \E doctags \in TagLists, doc \in UserDocTexts : extract_userdoc(doctags, doc)
    \/ no_userdocs
    \/ \E basetags \in BasetagTuples : call_make_hierarchy(basetags)

SpecHierarchy == Init /\ [][NextHierarchy]_vars

-----------------------------------------------------------------------------
(* extras/inline.py: main() and the generators replaced() *)

\* the generator that runs: the innermost one
top == stack[Len(stack)]

\* the stack with its innermost generator changed to g
with_top(g) == [stack EXCEPT ![Len(stack)] = g]

\* main(): for line in replaced(filename), with noinclude = []
call_replaced(filename) ==
    /\ inl_pc = "idle"
    /\ inl_pc' = "running"
    /\ stack' = << new_generator(filename) >>
    /\ noinclude' = <<>>
    /\ UNCHANGED <<library, inserts, yielded>>
    /\ UNCHANGED index_vars

\* for no, line in enumerate(filename.open(...)): the next line, with the
\* matches of sliimport in it; found = False. What a file holds is drawn
\* when it is read.
next_line(line) ==
    /\ inl_pc = "running"
    /\ ~top.inline
    /\ top.no < MaxLines
    /\ stack' = with_top([top EXCEPT !.no = @ + 1, !.inline = TRUE,
                                     !.line = line, !.found = FALSE])
    /\ UNCHANGED <<library, inl_pc, noinclude, inserts, yielded>>
    /\ UNCHANGED index_vars

\* for match in ...: if incfile in noinclude: continue
skip_included ==
    /\ inl_pc = "running"
    /\ top.inline /\ top.line # <<>>
    /\ in_noinclude(incfile(Head(top.line)), noinclude)
    /\ stack' = with_top([top EXCEPT !.line = Tail(@)])
    /\ UNCHANGED <<library, inl_pc, noinclude, inserts, yielded>>
    /\ UNCHANGED index_vars

\* for match in ...: if not incfile.is_file(): two lines "INSERT FAILED"
\* are yielded; continue
insert_failed ==
    /\ inl_pc = "running"
    /\ top.inline /\ top.line # <<>>
    /\ ~in_noinclude(incfile(Head(top.line)), noinclude)
    /\ incfile(Head(top.line)) \notin library
    /\ stack' = with_top([top EXCEPT !.line = Tail(@)])
    /\ yielded' = "INSERT FAILED"
    /\ UNCHANGED <<library, inl_pc, noinclude, inserts>>
    /\ UNCHANGED index_vars

\* for match in ...: the lines "INSERT incfile LITERALLY" and "L{no}" are
\* yielded, incfile is appended to noinclude, and replaced(incfile,
\* noinclude) is called, unless the calls are nested too deep
insert_literally ==
    /\ inl_pc = "running"
    /\ top.inline /\ top.line # <<>>
    /\ ~in_noinclude(incfile(Head(top.line)), noinclude)
    /\ incfile(Head(top.line)) \in library
    /\ inserts' = [inserts EXCEPT ![incfile(Head(top.line))] = @ + 1]
    /\ noinclude' = Append(noinclude, incfile(Head(top.line)))
    /\ yielded' = "INSERT LITERALLY"
    /\ IF Len(stack) < RecursionLimit
       THEN /\ stack' = Append(stack, new_generator(incfile(Head(top.line))))
            /\ inl_pc' = inl_pc
       ELSE /\ stack' = stack
            /\ inl_pc' = "RecursionError"
    /\ UNCHANGED library
    /\ UNCHANGED index_vars

\* after the matches of a line: if not found: yield line
end_of_line ==
    /\ inl_pc = "running"
    /\ top.inline /\ top.line = <<>>
    /\ stack' = with_top([top EXCEPT !.inline = FALSE])
    /\ yielded' = IF top.found THEN yielded ELSE "line"
    /\ UNCHANGED <<library, inl_pc, noinclude, inserts>>
    /\ UNCHANGED index_vars

\* the file has no more lines: the generator is exhausted. The calling
\* generator yields "END incfile" and sets found = True; the outermost
\* generator ends the loop of main().
end_of_file ==
    /\ inl_pc = "running"
    /\ ~top.inline
    /\ IF Len(stack) = 1
       THEN /\ stack' = <<>>
            /\ inl_pc' = "returned"
            /\ UNCHANGED yielded
       ELSE /\ stack' = [SubSeq(stack, 1, Len(stack) - 1)
                            EXCEPT ![Len(stack) - 1].line = Tail(@),
                                   ![Len(stack) - 1].found = TRUE]
            /\ inl_pc' = inl_pc
            /\ yielded' = "END"
    /\ UNCHANGED <<library, noinclude, inserts>>
    /\ UNCHANGED index_vars

\* any set of library files
InitInline ==
    /\ index_idle
    /\ library \in SUBSET IncludePaths
    /\ inl_pc = "idle"
    /\ stack = <<>>
    /\ noinclude = <<>>
    /\ inserts = [f \in IncludePaths |-> 0]
    /\ yielded = "nothing"

NextInline ==
    \/ \E filename \in {MainFile} \cup library : call_replaced(filename)
    \/ \E line \in Lines : next_line(line)
    \/ skip_included
    \/ insert_failed
    \/ insert_literally
    \/ end_of_line
    \/ end_of_file

\* main() runs on: a generator that can take a step takes one
SpecInline == InitInline /\ [][NextInline]_vars /\ WF_vars(NextInline)

-----------------------------------------------------------------------------
(* What the claims speak of *)

\* the documents of the index
AllDocs == {documents[i].filename : i \in 1..Len(documents)}

\* document d carries tag t
Carries(d, t) ==
    \E i \in 1..Len(documents) :
        documents[i].filename = d /\ t \in Range(documents[i].tags)

\* the documents carrying every tag of the combination B
Carrying(B) == {d \in AllDocs : \A t \in Range(B) : Carries(d, t)}

\* the documents of all sub-facets and of the uncategorized bucket
PartitionDocs(h) == UNION {h.dict[i].v : i \in 1..Len(h.dict)}

\* the loop of CreateTagIndices has run at least once
InLoop == pc \in {"CreateTagIndices", "done"} /\ visited # <<>>

\* how many pages were written for the combination B
PagesFor(B) == Cardinality({i \in 1..Len(written) : written[i].tags = B})

\* the subsets of the tags to combine that have at most d members
SubsetsUpTo(d) == {S \in SUBSET Range(taglist) : Cardinality(S) <= d}

\* the links of the section titles of a page
TitleLinks(text) == {text[i].link : i \in {j \in 1..Len(text) : text[j].kind = "title"}}

\* the documents listed on a page
ListedDocs(text) == {text[i].link : i \in {j \in 1..Len(text) : text[j].kind = "item"}}

\* the identifiers of the pages of the combinations that hold NOINDEX
NoindexTargets ==
    {"index_" \o join("_", sortedset(S \cup {"NOINDEX"})) : S \in SUBSET TagUniverse}

-----------------------------------------------------------------------------
(* Claims *)

\* C1: for every non-empty combination B the loop hands to make_hierarchy,
\* the documents of the sub-facets together with the uncategorized bucket
\* are exactly the documents carrying every tag of B.
C1_PartitionExhaustive ==
    (InLoop /\ current_tags # <<>> /\ hier.raised = "")
        => PartitionDocs(hier) = Carrying(current_tags)

\* C2: when CreateTagIndices returns, the reported count nindices equals
\* the number of combinations the loop went through, and both equal the
\* number of subsets of the n tags with at most min(4, n) members.
C2_CountMatches ==
    pc = "done"
        => /\ nindices = Len(visited)
           /\ Len(visited) = Cardinality(SubsetsUpTo(IF Len(taglist) < 4 THEN Len(taglist) ELSE 4))

\* C3: when CreateTagIndices returns, every combination it went through
\* has exactly one page if some document carries all its tags, and no page
\* otherwise.
C3_PageIffNonEmpty ==
    pc = "done"
        => \A i \in 1..Len(visited) :
              PagesFor(visited[i]) = IF Carrying(visited[i]) # {} THEN 1 ELSE 0

\* C4: two different combinations never get the same page identifier, and
\* no page file is written more than once.
C4_IdentifiersInjective ==
    /\ \A i, j \in 1..Len(visited) :
          visited[i] # visited[j] => indexname(visited[i]) # indexname(visited[j])
    /\ \A i, j \in 1..Len(written) : i # j => written[i].name # written[j].name

\* C5: NOINDEX and the empty tag are in no combination the loop goes
\* through, and neither an index page nor a rewritten "See also" section
\* links to a page identifier built from NOINDEX.
C5_NoindexNeverCombinedNorLinked ==
    /\ \A i \in 1..Len(visited) : "NOINDEX" \notin Range(visited[i]) /\ "" \notin Range(visited[i])
    /\ \A i \in 1..Len(written) : TitleLinks(written[i].text) \cap NoindexTargets = {}
    /\ ret.fn = "rewrite_see_also"
          => \A i \in 1..Len(ret.result.doc) :
                \A j \in 1..Len(ret.result.doc[i].content) :
                    ret.result.doc[i].content[j].link \notin NoindexTargets

\* C6: when CreateTagIndices returns, no page lists a document that
\* carries NOINDEX, whatever other tags the document carries.
C6_NoindexDocsListedNowhere ==
    pc = "done"
        => \A i \in 1..Len(written) : \A d \in AllDocs :
              Carries(d, "NOINDEX") => splitext0(d) \notin ListedDocs(written[i].text)

\* C6 as amended: when CreateTagIndices returns, no page lists a document
\* that carries NOINDEX and no other tag.
C6_OnlyNoindexDocsListedNowhere ==
    pc = "done"
        => \A i \in 1..Len(written) : \A d \in AllDocs :
              (\A t \in TagUniverse : Carries(d, t) => t = "NOINDEX")
                  => splitext0(d) \notin ListedDocs(written[i].text)

\* C6 happens: the run is over, one document carries only NOINDEX, another
\* document is listed on a page of a combination
C6_Witness ==
    /\ pc = "done"
    /\ \E d \in AllDocs : \A t \in TagUniverse : Carries(d, t) => t = "NOINDEX"
    /\ \E i \in 1..Len(written) : written[i].tags # <<>> /\ ListedDocs(written[i].text) # {}

\* C7: in the tagdict of the index no document occurs twice under one tag.
C7_TagdictSetSemantics ==
    \A i \in 1..Len(tagdict(documents)) :
        \A p, q \in 1..Len(tagdict(documents)[i].v) :
            p # q => tagdict(documents)[i].v[p] # tagdict(documents)[i].v[q]

\* a tuple of strings is sorted and free of duplicates
StrictlySorted(c) == \A i \in 1..(Len(c) - 1) : StrLess(c[i], c[i + 1])

\* a < b for two tuples of strings of the same length
TupleLess(a, b) ==
    \E k \in 1..Len(a) : SubSeq(a, 1, k - 1) = SubSeq(b, 1, k - 1) /\ StrLess(a[k], b[k])

\* the position of a tag in taglist, the insertion order of the TagMap
PositionOf(t) == CHOOSE i \in 1..Len(taglist) : taglist[i] = t

\* the combination c comes before the combination e of the same size in
\* the order of itertools.combinations: at the first place where the
\* positions taken differ, c takes the earlier one
PositionsLess(c, e) ==
    LET pc_ == {PositionOf(t) : t \in Range(c)}
        pe == {PositionOf(t) : t \in Range(e)}
        onlyc == pc_ \ pe
        onlye == pe \ pc_
    IN onlyc # {} /\ \E m \in onlyc : \A x \in onlyc \cup onlye : m <= x

\* every subset of at most min(4, n) tags is visited, exactly once, as a
\* sorted tuple
VisitsEverySubsetOnce ==
    /\ \A i \in 1..Len(visited) : StrictlySorted(visited[i])
    /\ {Range(visited[i]) : i \in 1..Len(visited)}
          = SubsetsUpTo(IF Len(taglist) < 4 THEN Len(taglist) ELSE 4)
    /\ \A i, j \in 1..Len(visited) : i # j => visited[i] # visited[j]

\* C8: the loop visits every subset of at most min(4, n) tags exactly once,
\* as a sorted tuple, by increasing size and within a size in lexicographic
\* order of the sorted tuples.
C8_SizeThenLexicographic ==
    pc = "done"
        => /\ VisitsEverySubsetOnce
           /\ \A i, j \in 1..Len(visited) :
                 i < j => \/ Len(visited[i]) < Len(visited[j])
                          \/ /\ Len(visited[i]) = Len(visited[j])
                             /\ TupleLess(visited[i], visited[j])

\* C8 as amended: the loop visits every subset of at most min(4, n) tags
\* exactly once, as a sorted tuple, by increasing size and within a size in
\* the order of itertools.combinations over the tags in insertion order.
C8_SizeThenInsertionOrder ==
    pc = "done"
        => /\ VisitsEverySubsetOnce
           /\ \A i, j \in 1..Len(visited) :
                 i < j => \/ Len(visited[i]) < Len(visited[j])
                          \/ /\ Len(visited[i]) = Len(visited[j])
                             /\ PositionsLess(visited[i], visited[j])

\* C8 happens: the run is over, there are more than 4 tags and they were
\* not inserted in sorted order
C8_Witness == pc = "done" /\ Len(taglist) > 4 /\ taglist # sorted(taglist)

\* the tags of the TagMap of a direct call
KnownTags == Range(keys(tagdict(documents)))

\* C9: a direct call of make_hierarchy with a combination that holds a tag
\* absent from the TagMap raises nothing and returns a partition without
\* children.
C9_UnknownTagGivesEmptyPartition ==
    (ret.fn = "make_hierarchy" /\ ~(Range(ret.basetags) \subseteq KnownTags))
        => ret.result.raised = "" /\ ret.result.dict = <<>>

\* the label of a section title, without the count " (n)" of a root page
LabelOf(text) ==
    IF \E i \in 1..(Len(text) - 1) : SubSeq(text, i, i + 1) = " ("
    THEN SubSeq(text, 1, (CHOOSE i \in 1..(Len(text) - 1) :
                             /\ SubSeq(text, i, i + 1) = " ("
                             /\ \A j \in 1..(i - 1) : SubSeq(text, j, j + 1) # " (") - 1)
    ELSE text

\* C10: when CreateTagIndices returns, every section title of a page
\* written for the combination B is the title of a sub-key s of B, and its
\* link is the page identifier that CreateTagIndices gives to the sorted
\* combination of B and s.
C10_LinkIsPageIdentifier ==
    pc = "done"
        => \A i \in 1..Len(written) :
              \A j \in 1..Len(written[i].text) :
                  written[i].text[j].kind = "title"
                      => \E s \in Range(keys(tags)) \ Range(written[i].tags) :
                            /\ LabelOf(written[i].text[j].text) = rightcase(s)
                            /\ written[i].text[j].link \o ".rst"
                                  = indexname(sorted(Append(written[i].tags, s)))

\* C10 happens: the run is over and the page of ("a", "b") links to the sub-key "a_b", which
\* sorts between the two
C10_Witness ==
    /\ pc = "done"
    /\ \E i \in 1..Len(written) :
          /\ written[i].tags = <<"a", "b">>
          /\ "index_a_a_b_b" \in TitleLinks(written[i].text)

\* the partition make_hierarchy gives for the combination B of a written page
PartitionOf(B) == make_hierarchy(tags, B).dict

\* C11: every page written for a non-empty combination B has one section
\* title, linking to the page of B and s, for every sub-key s of the
\* partition of B that is neither the empty key nor NOINDEX, also when
\* the partition has a single sub-key.
C11_TitlePerSubKey ==
    \A i \in 1..Len(written) :
        written[i].tags # <<>>
            => \A s \in Range(keys(PartitionOf(written[i].tags))) \ {"", "NOINDEX"} :
                  subindex(s, written[i].tags) \in TitleLinks(written[i].text)

\* C12: the loop of CreateTagIndices leaves the TagMap as ingestion built
\* it, and when CreateTagIndices returns every page written is the one
\* rst_index and make_hierarchy give for its combination on that TagMap,
\* whatever was processed before it.
C12_TagMapUnchanged ==
    /\ pc \in {"CreateTagIndices", "done"} => tags = tagdict(documents)
    /\ InLoop => hier = make_hierarchy(tagdict(documents), current_tags)
    /\ pc = "done"
          => \A i \in 1..Len(written) :
                written[i].text
                    = rst_index(make_hierarchy(tagdict(documents), written[i].tags),
                                written[i].tags)

\* C12 happens: the run is over, a list of the TagMap is not in sorted
\* order, and the root page and the page of a combination were rendered
C12_Witness ==
    /\ pc = "done"
    /\ \E i \in 1..Len(tags) : tags[i].v # sorted(tags[i].v)
    /\ \E i, j \in 1..Len(written) : written[i].tags = <<>> /\ written[j].tags # <<>>

\* C13: when CreateTagIndices returns, every link of a section title of a
\* written page leads to a page written in the same run.
C13_NoDanglingLinks ==
    pc = "done"
        => \A i \in 1..Len(written) :
              \A l \in TitleLinks(written[i].text) : (l \o ".rst") \in Range(indexfiles)

\* C14: main() returns, whatever the files hold, and no library file is
\* inserted more than once in a run.
C14_TerminatesAndInlinesOnce ==
    /\ <>(inl_pc = "returned")
    /\ [](\A f \in IncludePaths : inserts[f] <= 1)

\* C14 happens: a file inserted through two nested inclusions asks in turn
\* for a file that is being expanded, a cycle, and the command is skipped
C14_Witness ==
    /\ inl_pc = "running"
    /\ Len(stack) >= 3
    /\ top.inline /\ top.line # <<>>
    /\ \E i \in 2..(Len(stack) - 1) : stack[i].filename = incfile(Head(top.line))
    /\ in_noinclude(incfile(Head(top.line)), noinclude)
    /\ inserts[incfile(Head(top.line))] = 1

====
